---- MODULE Spec2Model ----
(***************************************************************************)
(* Model of the frame pipeline of the compute-shader ray tracer            *)
(* (src/src/lib.rs): App::new, App::render, App::fixed_update and the      *)
(* eframe::App::update callback.                                           *)
(*                                                                         *)
(* Units.  Buffers are sequences of 4-byte words; byte lengths are         *)
(* WORD_BYTES * Len(words).  Time is counted in quanta of 1/120 s, so      *)
(* FIXED_UPDATE_TIMESTEP (1/60 s) is 2 quanta.  Camera distances are       *)
(* counted in units of 0.0001, so the min_distance floor 0.0001 is 1 and   *)
(* the initial min_distance 0.001 is 10.  Viewport lengths handed over by  *)
(* the UI are f32 and are counted in half pixels before the `as usize`     *)
(* cast.                                                                   *)
(*                                                                         *)
(* Not modelled: camera position, rotation and sky colours (no statement   *)
(* below reads them), the two timing Durations, and the shader itself.     *)
(***************************************************************************)
EXTENDS Integers, Sequences, FiniteSets, TLC

(***************************************************************************)
(* Bounds of the model.                                                    *)
(***************************************************************************)
MaxSpheres  == 3   \* "Add Sphere" is disabled at this list length
MaxTextures == 2   \* render targets created over a run, the initial one included
MaxDt       == 5   \* longest frame interval, in quanta (5 = 2.5 timesteps)

(***************************************************************************)
(* Program constants.                                                      *)
(***************************************************************************)
FIXED_UPDATE_TIMESTEP == 2          \* 1/60 s in quanta of 1/120 s
WORKGROUP_SIZE        == 16         \* workgroup_size = (16, 16)
MIN_DISTANCE_FLOOR    == 1          \* .max(0.0001)
MAX_DISTANCE_FLOOR    == 0          \* .max(0.0)
INITIAL_MIN_DISTANCE  == 10         \* min_distance: 0.001
INITIAL_MAX_DISTANCE  == 10000000   \* max_distance: 1000.0
INITIAL_EXTENT        == 1          \* (width, height) = (1usize, 1usize)

\* WGSL host-shareable layout used by #[derive(ShaderType)]
WORD_BYTES == 4     \* size of f32 / u32
F32_SIZE   == 4
U32_SIZE   == 4
VEC3_SIZE  == 12
VEC3_ALIGN == 16

\* optional values: None or Some(v), read with The
None == <<>>

Some(v) == <<v>>

The(opt) == opt[1]

Max(a, b) == IF a >= b THEN a ELSE b

RoundUp(align, n) == ((n + align - 1) \div align) * align

Zeros(n) == [k \in 1..n |-> 0]

(***************************************************************************)
(* Sphere and its record layout: position at 0, radius at 12, color at 16, *)
(* size rounded up to the 16-byte alignment of vec3.                       *)
(***************************************************************************)
DefaultSphere == [position |-> <<0, 0, 0>>, radius |-> 1, color |-> <<1, 1, 1>>]

EditedSphere == [position |-> <<2, 3, 4>>, radius |-> 5, color |-> <<6, 7, 8>>]

SphereValues == {DefaultSphere, EditedSphere}

record_size == RoundUp(VEC3_ALIGN, RoundUp(VEC3_ALIGN, VEC3_SIZE + F32_SIZE) + VEC3_SIZE)

\* sphere_count: ArrayLength is a u32 at offset 0; the runtime array that
\* follows starts at the next multiple of its element alignment.
header_size == RoundUp(VEC3_ALIGN, U32_SIZE)

SphereWords(s) ==
    s.position \o <<s.radius>> \o s.color
        \o Zeros((record_size - (VEC3_ALIGN + VEC3_SIZE)) \div WORD_BYTES)

HeaderWords(n) == <<n>> \o Zeros((header_size - U32_SIZE) \div WORD_BYTES)

RECURSIVE RecordsWords(_)
RecordsWords(list) ==
    IF list = <<>> THEN <<>>
    ELSE SphereWords(Head(list)) \o RecordsWords(Tail(list))


(***************************************************************************)
(* Packing of SpheresBuffer into a StorageBuffer<Vec<u8>>.                 *)
(* ShaderType::size of a runtime-sized array counts max(len, 1) elements,  *)
(* the writer first enlarges the zero-filled Vec to size() bytes, then     *)
(* writes the length header and the records.                               *)
(***************************************************************************)
SpheresSize(list) ==
    RoundUp(VEC3_ALIGN, header_size + record_size * Max(Len(list), 1))

PackSpheres_NoMinimum(list) ==
    HeaderWords(Len(list)) \o RecordsWords(list)

PackSpheres(list) ==
    LET written == HeaderWords(Len(list)) \o RecordsWords(list)
    IN  written \o Zeros(SpheresSize(list) \div WORD_BYTES - Len(written))

ByteLen(words) == WORD_BYTES * Len(words)

(***************************************************************************)
(* Camera -> CameraUniform -> bytes (only the two distance fields).        *)
(***************************************************************************)
CameraUniformFrom(cam) ==
    [min_distance |-> cam.min_distance, max_distance |-> cam.max_distance]

PackCamera(uniform) == <<uniform.min_distance, uniform.max_distance>>

ClampMinDistance_Unclamped(v) == v

ClampMinDistance(v) == Max(v, MIN_DISTANCE_FLOOR)

ClampMaxDistance(v) == Max(v, MAX_DISTANCE_FLOOR)

\* values the two DragValues can leave in <<min_distance, max_distance>>
\* before the clamps: -5 and -1, and 0 and -1
DistanceInputs == {<<-50000, -10000>>, <<0, -10000>>}

(***************************************************************************)
(* Vec::remove(i), i counted from 0 as in the code.                        *)
(***************************************************************************)
Remove_Swap(list, i) ==
    IF i + 1 = Len(list) THEN SubSeq(list, 1, i)
    ELSE SubSeq(list, 1, i) \o <<list[Len(list)]>> \o SubSeq(list, i + 2, Len(list) - 1)

Remove(list, i) == SubSeq(list, 1, i) \o SubSeq(list, i + 2, Len(list))

(***************************************************************************)
(* Pieces of render.                                                       *)
(***************************************************************************)
\* `x as usize` on an f32 counted in half pixels: truncates, negative -> 0
AsUsize(halves) == IF halves < 0 THEN 0 ELSE halves \div 2

\* ui.available_size() samples, in half pixels
AvailableSizes == {<<0, 1201>>, <<35, 0>>, <<35, 1201>>, <<1600, 1200>>}

NeedsResize_IgnoresZero(current, requested) == current # requested

NeedsResize(current, requested) ==
    current # requested /\ requested[1] # 0 /\ requested[2] # 0

DispatchCount_RoundsDown(extent) == extent \div WORKGROUP_SIZE

DispatchCount(extent) == (extent + WORKGROUP_SIZE - 1) \div WORKGROUP_SIZE

NeedsGrow_OnAnyChange(capacity, length) == capacity # length

NeedsGrow_OffByOneRecord(capacity, length) == capacity + record_size < length

NeedsGrow(capacity, length) == capacity < length

FixedUpdateDue_Strict(accumulator) == accumulator > FIXED_UPDATE_TIMESTEP

FixedUpdateDue(accumulator) == accumulator >= FIXED_UPDATE_TIMESTEP

\* queue.write_buffer(buffer, 0, data) as applied at the next submit
WriteAt0(contents, data) ==
    data \o SubSeq(contents, Len(data) + 1, Len(contents))

\* Dropping the application's handle of buffer `old`: the resource is
\* freed only when no bind group refers to it any more.
DropBufferHandle_Destroys(bufs, old, bound) ==
    [bufs EXCEPT ![old] = [contents |-> <<>>, released |-> TRUE]]

DropBufferHandle(bufs, old, bound) ==
    IF old = bound THEN bufs
    ELSE [bufs EXCEPT ![old] = [contents |-> <<>>, released |-> TRUE]]

\* Dropping the bind group that referred to texture `old`: the texture is
\* freed when the renderer holds no registration of it either.
DropTextureBindGroup(texs, old, registered) ==
    IF \E r \in registered : r[2] = old THEN texs
    ELSE [texs EXCEPT ![old] = [size |-> None]]

\* Dropping the bind group that referred to buffer `old`.
DropBindGroup(bufs, old, handle) ==
    IF old = handle THEN bufs
    ELSE [bufs EXCEPT ![old] = [contents |-> <<>>, released |-> TRUE]]


(***************************************************************************)
(* State.                                                                  *)
(***************************************************************************)
VARIABLES
    pc,                  \* position inside eframe::App::update / App::render
    fixed_update_time,   \* App.fixed_update_time, in quanta
    camera,              \* App.camera (distance fields)
    camera_buffer,       \* contents of App.camera_buffer on the device
    spheres,             \* App.spheres_storage.spheres
    i,                   \* loop index of the sphere editing pass
    texture_size,        \* App.texture_size
    texture_id,          \* App.texture_id, the egui handle
    texture_bind_group,  \* texture the group-0 bind group refers to
    textures,            \* device textures: [size], None once freed
    renderer,            \* egui renderer: registered handles and next id
    texture,             \* local `texture` of the resize block
    spheres_buffer,      \* App.spheres_buffer: index into buffers
    spheres_bind_group,  \* buffer the group-2 bind group refers to
    spheres_buffer_size, \* App.spheres_buffer_size, in bytes
    buffers,             \* device storage buffers: [contents, released]
    queue,               \* staged queue.write_buffer calls
    encoder,             \* the recorded compute pass
    requested,           \* render's `size` argument
    \* history of the current frame, cleared when the next one starts
    ticks,               \* calls of fixed_update in this update
    accumulated,         \* fixed_update_time right after `+= ts`
    dragged,             \* what the DragValues held before the clamps
    removal,             \* last Vec::remove: the list before and the index
    pass,                \* the editing pass: where each sphere came from,
                         \* which were visited and deleted, indices in range
    entry,               \* render target fields when render was entered
    executed,            \* what the submitted dispatch ran with
    waited,              \* the poll for the submission returned
    presented,           \* handle passed to ui.image
    log                  \* steps of the frame in the order they ran

vars ==
    <<pc, fixed_update_time, camera, camera_buffer, spheres, i, texture_size,
      texture_id, texture_bind_group, textures, renderer, texture,
      spheres_buffer, spheres_bind_group, spheres_buffer_size, buffers, queue,
      encoder, requested, ticks, accumulated, dragged, removal, pass, entry,
      executed,
      waited, presented, log>>

clock_vars == <<fixed_update_time, ticks, accumulated>>

scene_vars == <<camera, dragged, spheres, i, removal, pass>>

target_vars ==
    <<texture_size, texture_id, texture_bind_group, textures, renderer, texture>>

storage_vars ==
    <<spheres_buffer, spheres_bind_group, spheres_buffer_size, buffers>>

gpu_vars == <<camera_buffer, queue, encoder, executed, waited>>

frame_vars == <<requested, entry, presented>>

(***************************************************************************)
(* App::new                                                                *)
(***************************************************************************)
Init ==
    /\ pc = "idle"
    /\ fixed_update_time = 0
    /\ camera = [min_distance |-> INITIAL_MIN_DISTANCE,
                 max_distance |-> INITIAL_MAX_DISTANCE]
    /\ camera_buffer = PackCamera(CameraUniformFrom(camera))
    /\ spheres = <<DefaultSphere>>
    /\ i = 0
    /\ texture_size = <<INITIAL_EXTENT, INITIAL_EXTENT>>
    /\ textures = <<[size |-> Some(<<INITIAL_EXTENT, INITIAL_EXTENT>>)]>>
    /\ renderer = [textures |-> {<<0, 1>>}, next_user_texture_id |-> 1]
    /\ texture_id = 0
    /\ texture_bind_group = 1
    /\ texture = None
    /\ buffers = <<[contents |-> PackSpheres(spheres), released |-> FALSE]>>
    /\ spheres_buffer = 1
    /\ spheres_bind_group = 1
    /\ spheres_buffer_size = ByteLen(PackSpheres(spheres))
    /\ queue = <<>>
    /\ encoder = None
    /\ requested = None
    /\ ticks = 0
    /\ accumulated = 0
    /\ dragged = None
    /\ removal = None
    /\ pass = None
    /\ entry = None
    /\ executed = None
    /\ waited = FALSE
    /\ presented = None
    /\ log = <<>>

(***************************************************************************)
(* eframe::App::update: the fixed-step clock                               *)
(***************************************************************************)
\* let ts = dt.as_secs_f64(); self.fixed_update_time += ts;
UpdateBegin ==
    /\ pc = "idle"
    /\ \E ts \in 0..MaxDt :
         /\ fixed_update_time' = fixed_update_time + ts
         /\ accumulated' = fixed_update_time + ts
    /\ ticks' = 0
    /\ removal' = None
    /\ entry' = None
    /\ executed' = None
    /\ waited' = FALSE
    /\ presented' = None
    /\ log' = <<>>
    /\ pc' = "fixed_loop"
    /\ requested' = None
    /\ UNCHANGED <<camera, dragged, spheres, i, pass, target_vars,
                   storage_vars, camera_buffer, queue, encoder>>

\* one iteration of the while loop: fixed_update(), then subtract
FixedUpdate ==
    /\ pc = "fixed_loop"
    /\ FixedUpdateDue(fixed_update_time)
    /\ ticks' = ticks + 1
    /\ fixed_update_time' = fixed_update_time - FIXED_UPDATE_TIMESTEP
    /\ UNCHANGED <<pc, accumulated, scene_vars, target_vars, storage_vars,
                   gpu_vars, frame_vars, log>>

FixedLoopExit ==
    /\ pc = "fixed_loop"
    /\ ~FixedUpdateDue(fixed_update_time)
    /\ pc' = "side_panel"
    /\ UNCHANGED <<clock_vars, scene_vars, target_vars, storage_vars,
                   gpu_vars, frame_vars, log>>

(***************************************************************************)
(* eframe::App::update: the side panel                                     *)
(***************************************************************************)
\* the two DragValues, each followed by its clamp
EditCamera ==
    /\ pc = "side_panel"
    /\ \E held \in DistanceInputs
                      \cup {<<camera.min_distance, camera.max_distance>>} :
         /\ dragged' = Some(held)
         /\ camera' = [min_distance |-> ClampMinDistance(held[1]),
                       max_distance |-> ClampMaxDistance(held[2])]
    /\ ticks' = 0
    /\ accumulated' = 0
    /\ pc' = "spheres_header"
    /\ UNCHANGED <<fixed_update_time, spheres, i, removal, pass, target_vars,
                   storage_vars, gpu_vars, frame_vars, log>>

\* ui.collapsing("Spheres", ..) is closed: its body does not run
SpheresCollapsed ==
    /\ pc = "spheres_header"
    /\ pc' = "central_panel"
    /\ dragged' = None
    /\ UNCHANGED <<clock_vars, camera, spheres, i, removal, pass, target_vars,
                   storage_vars, gpu_vars, frame_vars, log>>

\* the body runs: the "Add Sphere" button, then let mut i = 0
SpheresOpen ==
    /\ pc = "spheres_header"
    /\ \E clicked \in BOOLEAN :
         /\ clicked => Len(spheres) < MaxSpheres
         /\ spheres' = IF clicked THEN Append(spheres, DefaultSphere) ELSE spheres
    /\ i' = 0
    /\ pass' = Some([start |-> Len(spheres'),
                     origin |-> [k \in 1..Len(spheres') |-> k - 1],
                     visited |-> <<>>, deleted |-> {}, in_range |-> TRUE])
    /\ dragged' = None
    /\ pc' = "spheres_loop"
    /\ UNCHANGED <<clock_vars, camera, removal, target_vars, storage_vars,
                   gpu_vars, frame_vars, log>>

\* as SphereIteration, but the index advances after a removal too
SphereIteration_AlwaysAdvances ==
    /\ pc = "spheres_loop"
    /\ i < Len(spheres)
    /\ \E edited \in SphereValues \cup {spheres[i + 1]}, to_remove \in BOOLEAN :
         LET list == [spheres EXCEPT ![i + 1] = edited]
             seen == [The(pass) EXCEPT
                        !.visited = Append(@, The(pass).origin[i + 1]),
                        !.in_range = @ /\ 0 <= i /\ i < Len(spheres)]
         IN  IF to_remove
             THEN /\ spheres' = Remove(list, i)
                  /\ removal' = Some([before |-> list, index |-> i])
                  /\ pass' = Some([seen EXCEPT
                                     !.origin = Remove(@, i),
                                     !.deleted = @ \cup {The(pass).origin[i + 1]}])
                  /\ i' = i + 1
             ELSE /\ spheres' = list
                  /\ removal' = None
                  /\ pass' = Some(seen)
                  /\ i' = i + 1
    /\ UNCHANGED <<pc, clock_vars, camera, dragged, target_vars, storage_vars,
                   gpu_vars, frame_vars, log>>

\* one iteration: the widgets edit spheres[i], then it is removed or kept
SphereIteration ==
    /\ pc = "spheres_loop"
    /\ i < Len(spheres)
    /\ \E edited \in SphereValues \cup {spheres[i + 1]}, to_remove \in BOOLEAN :
         LET list == [spheres EXCEPT ![i + 1] = edited]
             seen == [The(pass) EXCEPT
                        !.visited = Append(@, The(pass).origin[i + 1]),
                        !.in_range = @ /\ 0 <= i /\ i < Len(spheres)]
         IN  IF to_remove
             THEN /\ spheres' = Remove(list, i)
                  /\ removal' = Some([before |-> list, index |-> i])
                  /\ pass' = Some([seen EXCEPT
                                     !.origin = Remove(@, i),
                                     !.deleted = @ \cup {The(pass).origin[i + 1]}])
                  /\ i' = i
             ELSE /\ spheres' = list
                  /\ removal' = None
                  /\ pass' = Some(seen)
                  /\ i' = i + 1
    /\ UNCHANGED <<pc, clock_vars, camera, dragged, target_vars, storage_vars,
                   gpu_vars, frame_vars, log>>

SpheresLoopExit ==
    /\ pc = "spheres_loop"
    /\ ~(i < Len(spheres))
    /\ pc' = "central_panel"
    /\ i' = 0
    /\ removal' = None
    /\ UNCHANGED <<clock_vars, camera, dragged, spheres, pass, target_vars,
                   storage_vars, gpu_vars, frame_vars, log>>


(***************************************************************************)
(* App::render, called from the central panel                              *)
(***************************************************************************)
\* self.render(ts, .., (size.x as _, size.y as _)) up to the `if`
RenderBegin ==
    /\ pc = "central_panel"
    /\ \E available \in AvailableSizes :
         LET size == <<AsUsize(available[1]), AsUsize(available[2])>>
         IN  /\ NeedsResize(texture_size, size) => Len(textures) < MaxTextures
             /\ requested' = Some(size)
             /\ pc' = IF NeedsResize(texture_size, size)
                      THEN "free_texture" ELSE "camera_upload"
    /\ entry' = Some([texture_size |-> texture_size, texture_id |-> texture_id,
                 texture_bind_group |-> texture_bind_group,
                 textures |-> Len(textures)])
    /\ pass' = None
    /\ UNCHANGED <<clock_vars, camera, dragged, spheres, i, removal,
                   target_vars, storage_vars, gpu_vars, presented, log>>

\* as FreeTexture, but the old image is destroyed along with its handle
FreeTexture_DestroysImage ==
    /\ pc = "free_texture"
    /\ renderer' = [renderer EXCEPT
                      !.textures = {r \in @ : r[1] # texture_id}]
    /\ textures' = [textures EXCEPT ![texture_bind_group] = [size |-> None]]
    /\ pc' = "create_texture"
    /\ UNCHANGED <<clock_vars, scene_vars, texture_size, texture_id,
                   texture_bind_group, texture, storage_vars,
                   gpu_vars, frame_vars, log>>

\* renderer.free_texture(&self.texture_id)
FreeTexture ==
    /\ pc = "free_texture"
    /\ renderer' = [renderer EXCEPT
                      !.textures = {r \in @ : r[1] # texture_id}]
    /\ pc' = "create_texture"
    /\ UNCHANGED <<clock_vars, scene_vars, texture_size, texture_id,
                   texture_bind_group, textures, texture, storage_vars,
                   gpu_vars, frame_vars, log>>

\* let texture = device.create_texture(..)
CreateTexture ==
    /\ pc = "create_texture"
    /\ textures' = Append(textures, [size |-> Some(The(requested))])
    /\ texture' = Some(Len(textures) + 1)
    /\ pc' = "register_texture"
    /\ UNCHANGED <<clock_vars, scene_vars, texture_size, texture_id,
                   texture_bind_group, renderer, storage_vars, gpu_vars,
                   frame_vars, log>>

RegisterTexture_KeepsOldId ==
    /\ pc = "register_texture"
    /\ renderer' = [textures |-> renderer.textures
                                   \cup {<<renderer.next_user_texture_id, The(texture)>>},
                    next_user_texture_id |-> renderer.next_user_texture_id + 1]
    /\ pc' = "bind_texture"
    /\ UNCHANGED <<clock_vars, scene_vars, texture_size, texture_id,
                   texture_bind_group, textures, texture, storage_vars,
                   gpu_vars, frame_vars, log>>

\* self.texture_id = renderer.register_native_texture(..)
RegisterTexture ==
    /\ pc = "register_texture"
    /\ texture_id' = renderer.next_user_texture_id
    /\ renderer' = [textures |-> renderer.textures
                                   \cup {<<renderer.next_user_texture_id, The(texture)>>},
                    next_user_texture_id |-> renderer.next_user_texture_id + 1]
    /\ pc' = "bind_texture"
    /\ UNCHANGED <<clock_vars, scene_vars, texture_size, texture_bind_group,
                   textures, texture, storage_vars, gpu_vars, frame_vars, log>>

\* self.texture_bind_group = device.create_bind_group(..)
BindTexture ==
    /\ pc = "bind_texture"
    /\ texture_bind_group' = The(texture)
    /\ textures' = DropTextureBindGroup(textures, texture_bind_group,
                                        renderer.textures)
    /\ pc' = "set_texture_size"
    /\ UNCHANGED <<clock_vars, scene_vars, texture_size, texture_id, renderer,
                   texture, storage_vars, gpu_vars, frame_vars, log>>

\* self.texture_size = size; the block ends and `texture` goes out of scope
SetTextureSize ==
    /\ pc = "set_texture_size"
    /\ texture_size' = The(requested)
    /\ texture' = None
    /\ log' = Append(log, "resize")
    /\ pc' = "camera_upload"
    /\ UNCHANGED <<clock_vars, scene_vars, texture_id, texture_bind_group,
                   textures, renderer, storage_vars, gpu_vars, frame_vars>>

\* queue.write_buffer(&self.camera_buffer, 0, ..)
UploadCamera ==
    /\ pc = "camera_upload"
    /\ queue' = Append(queue, [target |-> "camera", buffer |-> 0,
                               data |-> PackCamera(CameraUniformFrom(camera))])
    /\ log' = Append(log, "camera")
    /\ pc' = "spheres_upload"
    /\ UNCHANGED <<clock_vars, scene_vars, target_vars, storage_vars,
                   camera_buffer, encoder, executed, waited, frame_vars>>

\* self.spheres_buffer = device.create_buffer_init(..)
GrowBufferCreate ==
    /\ pc = "spheres_upload"
    /\ NeedsGrow(spheres_buffer_size, ByteLen(PackSpheres(spheres)))
    /\ buffers' = DropBufferHandle(
                      Append(buffers, [contents |-> PackSpheres(spheres),
                                       released |-> FALSE]),
                      spheres_buffer, spheres_bind_group)
    /\ spheres_buffer' = Len(buffers) + 1
    /\ pc' = "grow_bind"
    /\ UNCHANGED <<clock_vars, scene_vars, target_vars, spheres_bind_group,
                   spheres_buffer_size, gpu_vars, frame_vars, log>>

\* self.spheres_bind_group = device.create_bind_group(..)
GrowBufferBind ==
    /\ pc = "grow_bind"
    /\ spheres_bind_group' = spheres_buffer
    /\ buffers' = DropBindGroup(buffers, spheres_bind_group, spheres_buffer)
    /\ pc' = "grow_record"
    /\ UNCHANGED <<clock_vars, scene_vars, target_vars, spheres_buffer,
                   spheres_buffer_size, gpu_vars, frame_vars, log>>

\* self.spheres_buffer_size = buffer.len()
GrowBufferRecord ==
    /\ pc = "grow_record"
    /\ spheres_buffer_size' = ByteLen(PackSpheres(spheres))
    /\ log' = Append(log, "spheres")
    /\ pc' = "dispatch"
    /\ UNCHANGED <<clock_vars, scene_vars, target_vars, spheres_buffer,
                   spheres_bind_group, buffers, gpu_vars, frame_vars>>

\* else: queue.write_buffer(&self.spheres_buffer, 0, &buffer)
WriteSpheres ==
    /\ pc = "spheres_upload"
    /\ ~NeedsGrow(spheres_buffer_size, ByteLen(PackSpheres(spheres)))
    /\ queue' = Append(queue, [target |-> "spheres", buffer |-> spheres_buffer,
                               data |-> PackSpheres(spheres)])
    /\ log' = Append(log, "spheres")
    /\ pc' = "dispatch"
    /\ UNCHANGED <<clock_vars, scene_vars, target_vars, storage_vars,
                   camera_buffer, encoder, executed, waited, frame_vars>>

\* the compute pass: pipeline, three bind groups, dispatch_workgroups
EncodeDispatch ==
    /\ pc = "dispatch"
    /\ encoder' = Some([group0 |-> texture_bind_group,
                   group2 |-> spheres_bind_group,
                   x |-> DispatchCount(texture_size[1]),
                   y |-> DispatchCount(texture_size[2]),
                   z |-> 1,
                   texture_size |-> texture_size])
    /\ log' = Append(log, "dispatch")
    /\ pc' = "submit"
    /\ UNCHANGED <<clock_vars, scene_vars, target_vars, storage_vars,
                   camera_buffer, queue, executed, waited, frame_vars>>

RECURSIVE CameraAfter(_, _)
CameraAfter(q, contents) ==
    IF q = <<>> THEN contents
    ELSE CameraAfter(Tail(q),
                     IF Head(q).target = "camera"
                     THEN WriteAt0(contents, Head(q).data) ELSE contents)

RECURSIVE BuffersAfter(_, _)
BuffersAfter(q, bufs) ==
    IF q = <<>> THEN bufs
    ELSE BuffersAfter(Tail(q),
                      IF Head(q).target = "camera" THEN bufs
                      ELSE [bufs EXCEPT ![Head(q).buffer].contents =
                                            WriteAt0(@, Head(q).data)])

\* queue.submit([encoder.finish()]): staged writes land, then the pass runs
Submit ==
    /\ pc = "submit"
    /\ camera_buffer' = CameraAfter(queue, camera_buffer)
    /\ buffers' = BuffersAfter(queue, buffers)
    /\ queue' = <<>>
    /\ executed' = Some([x |-> The(encoder).x, y |-> The(encoder).y,
                         z |-> The(encoder).z,
                         texture_size |-> The(encoder).texture_size,
                         target |-> The(encoder).group0,
                         uniform |-> camera_buffer',
                         storage_buffer |-> The(encoder).group2,
                         storage |-> buffers'[The(encoder).group2]])
    /\ encoder' = None
    /\ log' = Append(log, "submit")
    /\ pc' = "wait"
    /\ UNCHANGED <<clock_vars, scene_vars, target_vars, spheres_buffer,
                   spheres_bind_group, spheres_buffer_size, waited, frame_vars>>

\* device.poll(Maintain::WaitForSubmissionIndex(..)); render returns
WaitForSubmission ==
    /\ pc = "wait"
    /\ waited' = TRUE
    /\ log' = Append(log, "wait")
    /\ pc' = "present"
    /\ UNCHANGED <<clock_vars, scene_vars, target_vars, storage_vars,
                   camera_buffer, queue, encoder, executed, frame_vars>>

\* ui.image(self.texture_id, size)
Present ==
    /\ pc = "present"
    /\ presented' = Some(texture_id)
    /\ log' = Append(log, "present")
    /\ pc' = "input"
    /\ UNCHANGED <<clock_vars, scene_vars, target_vars, storage_vars,
                   gpu_vars, requested, entry>>

\* pointer and keyboard input (camera pose only), last_frame_time,
\* request_repaint
UpdateEnd ==
    /\ pc = "input"
    /\ pc' = "idle"
    /\ UNCHANGED <<clock_vars, scene_vars, target_vars, storage_vars,
                   gpu_vars, frame_vars, log>>

Next ==
    \/ UpdateBegin
    \/ FixedUpdate
    \/ FixedLoopExit
    \/ EditCamera
    \/ SpheresCollapsed
    \/ SpheresOpen
    \/ SphereIteration
    \/ SpheresLoopExit
    \/ RenderBegin
    \/ FreeTexture
    \/ CreateTexture
    \/ RegisterTexture
    \/ BindTexture
    \/ SetTextureSize
    \/ UploadCamera
    \/ GrowBufferCreate
    \/ GrowBufferBind
    \/ GrowBufferRecord
    \/ WriteSpheres
    \/ EncodeDispatch
    \/ Submit
    \/ WaitForSubmission
    \/ Present
    \/ UpdateEnd

Spec == Init /\ [][Next]_vars


(***************************************************************************)
(* Properties                                                              *)
(***************************************************************************)
Range(s) == {s[k] : k \in 1..Len(s)}

\* least n with n * b >= a
Ceil(a, b) == CHOOSE n \in 0..a : n * b >= a /\ (n = 0 \/ (n - 1) * b < a)

InRender == entry # None

ZeroSized(size) == size[1] = 0 \/ size[2] = 0

\* C1: a render call whose requested size has a zero dimension or equals
\* the current texture_size does not recreate the render target:
\* texture_size, texture_id and texture_bind_group keep the values they had
\* on entry, no texture is created and the handle stays registered.
C1_NoResizeKeepsTarget ==
    (InRender /\ (ZeroSized(The(requested))
                     \/ The(requested) = The(entry).texture_size)) =>
        /\ texture_size = The(entry).texture_size
        /\ texture_id = The(entry).texture_id
        /\ texture_bind_group = The(entry).texture_bind_group
        /\ Len(textures) = The(entry).textures
        /\ <<texture_id, texture_bind_group>> \in renderer.textures
        /\ "resize" \notin Range(log)

C1_Witness ==
    /\ pc = "input"
    /\ requested = Some(<<17, 600>>)
    /\ The(entry).texture_size = <<17, 600>>
    /\ texture_id = The(entry).texture_id

\* C2: for a requested size (w, h) with w > 0 and h > 0 the one dispatch of
\* the call runs with texture_size = (w, h) on a target of that size and
\* with (ceil(w/16), ceil(h/16), 1) workgroups, (800, 600) giving 50 by 38;
\* for a zero-sized request the counts come from the retained texture_size.
C2_DispatchCoversRequest ==
    executed # None =>
        LET size == IF ZeroSized(The(requested))
                    THEN The(entry).texture_size ELSE The(requested)
            ran  == The(executed)
        IN  /\ ran.texture_size = size
            /\ texture_size = size
            /\ textures[ran.target].size = Some(size)
            /\ ran.x = Ceil(size[1], WORKGROUP_SIZE)
            /\ ran.y = Ceil(size[2], WORKGROUP_SIZE)
            /\ ran.z = 1
            /\ Cardinality({k \in 1..Len(log) : log[k] = "dispatch"}) = 1
            /\ requested = Some(<<800, 600>>) => ran.x = 50 /\ ran.y = 38

C2_Witness ==
    /\ executed # None
    /\ requested = Some(<<800, 600>>)
    /\ The(executed).x = 50
    /\ The(executed).y = 38


\* the record of sphere k (from 1) as the shader reads it from `words`
RecordAt(words, k) ==
    LET base == (header_size + (k - 1) * record_size) \div WORD_BYTES
    IN  [position |-> SubSeq(words, base + 1, base + 3),
         radius   |-> words[base + 4],
         color    |-> SubSeq(words, base + 5, base + 7)]

\* C3: at every dispatch the buffer bound at group 2 is the application's
\* current buffer, spheres_buffer_size is at least the packed length of the
\* current sphere list and no more than the buffer holds, and the leading
\* packed-length bytes are the current serialization: the count of spheres,
\* then the current sphere records in order.
C3_BoundStorageIsCurrent ==
    executed # None =>
        LET ran    == The(executed)
            words  == ran.storage.contents
            packed == PackSpheres(spheres)
        IN  /\ ran.storage_buffer = spheres_bind_group
            /\ ran.storage_buffer = spheres_buffer
            /\ ~ran.storage.released
            /\ spheres_buffer_size >= ByteLen(packed)
            /\ ByteLen(words) = spheres_buffer_size
            /\ SubSeq(words, 1, Len(packed)) = packed
            /\ words[1] = Len(spheres)
            /\ \A k \in 1..Len(spheres) : RecordAt(words, k) = spheres[k]

\* the overwrite-in-place branch with a stale record behind the valid ones
C3_Witness ==
    /\ executed # None
    /\ Len(spheres) = 1
    /\ spheres_buffer_size = header_size + 2 * record_size
    /\ "resize" \notin Range(log)
    /\ RecordAt(The(executed).storage.contents, 2) = EditedSphere

\* C4: spheres_buffer_size never decreases, and the buffer, its binding
\* and the recorded capacity change only in a step taken while the packed
\* length of the sphere list exceeds the recorded capacity.
C4_CapacityMonotonic ==
    [][/\ spheres_buffer_size' >= spheres_buffer_size
       /\ (\/ spheres_buffer' # spheres_buffer
           \/ spheres_bind_group' # spheres_bind_group
           \/ spheres_buffer_size' # spheres_buffer_size
           \/ Len(buffers') # Len(buffers))
          => ByteLen(PackSpheres(spheres)) > spheres_buffer_size]_vars

\* grown to three spheres, then rendered again with one
C4_Witness ==
    /\ executed # None
    /\ spheres_buffer_size = header_size + 3 * record_size
    /\ Len(spheres) = 1
    /\ Len(buffers) = 3

\* the bytes this call of render has packed and handed to the device
UploadedSpheres ==
    {q.data : q \in {e \in Range(queue) : e.target = "spheres"}}
        \cup (IF pc = "grow_bind" THEN {buffers[spheres_buffer].contents} ELSE {})

\* C5 as stated: the packed buffer of a list of N spheres, N = 0 included,
\* is exactly header_size + N * record_size bytes long and its header
\* decodes to N.
C5_PackedLengthAsStated ==
    \A bytes \in UploadedSpheres :
        /\ ByteLen(bytes) = header_size + Len(spheres) * record_size
        /\ bytes[1] = Len(spheres)

\* C5 amended: the packed buffer of a list of N spheres is exactly
\* header_size + max(N, 1) * record_size bytes long (an empty list is
\* packed with room for one zeroed record), and its header decodes to N.
C5_PackedLength ==
    \A bytes \in UploadedSpheres :
        /\ ByteLen(bytes) = header_size + Max(Len(spheres), 1) * record_size
        /\ bytes[1] = Len(spheres)
        /\ SubSeq(bytes, 2, header_size \div WORD_BYTES)
             = Zeros(header_size \div WORD_BYTES - 1)
        /\ header_size = 16
        /\ record_size = 32

C5_Witness ==
    /\ spheres = <<>>
    /\ UploadedSpheres # {}

\* C6: update adds the frame interval to fixed_update_time and then calls
\* fixed_update floor(accumulated / FIXED_UPDATE_TIMESTEP) times, each call
\* taking one timestep off, so that after the loop
\* 0 <= fixed_update_time < FIXED_UPDATE_TIMESTEP; 2.5 timesteps give 2
\* calls and leave half a timestep.
C6_FixedStepClock ==
    /\ pc = "fixed_loop" =>
         fixed_update_time = accumulated - ticks * FIXED_UPDATE_TIMESTEP
    /\ pc = "side_panel" =>
         /\ ticks = accumulated \div FIXED_UPDATE_TIMESTEP
         /\ fixed_update_time = accumulated - ticks * FIXED_UPDATE_TIMESTEP
         /\ 0 <= fixed_update_time
         /\ fixed_update_time < FIXED_UPDATE_TIMESTEP
         /\ 2 * accumulated = 5 * FIXED_UPDATE_TIMESTEP =>
              ticks = 2 /\ 2 * fixed_update_time = FIXED_UPDATE_TIMESTEP

C6_Witness ==
    /\ pc = "side_panel"
    /\ 2 * accumulated = 5 * FIXED_UPDATE_TIMESTEP
    /\ ticks = 2

\* C7: removing index i of a list of length L leaves L - 1 spheres, those
\* formerly at j < i still at j and those formerly at j > i now at j - 1.
C7_RemoveShiftsDown ==
    removal # None =>
        LET before == The(removal).before
            index  == The(removal).index
        IN  /\ index >= 0
            /\ index < Len(before)
            /\ Len(spheres) = Len(before) - 1
            /\ \A j \in 0..(Len(before) - 1) :
                 /\ j < index => spheres[j + 1] = before[j + 1]
                 /\ j > index => spheres[j] = before[j + 1]

\* three spheres, index 1 removed, the last one unlike the other two
C7_Witness ==
    /\ removal # None
    /\ Len(The(removal).before) = 3
    /\ The(removal).index = 1
    /\ The(removal).before[3] # The(removal).before[1]
    /\ The(removal).before[3] # The(removal).before[2]
    /\ spheres = <<The(removal).before[1], The(removal).before[3]>>


\* C8: whenever the camera is packed and uploaded, min_distance >= 0.0001
\* and max_distance >= 0.0 in the camera and in the bytes the device gets;
\* a min_distance the DragValue left at -5 is 0.0001 and a max_distance it
\* left at -1 is 0.0 once the side panel has run.
C8_DistancesClamped ==
    /\ dragged # None =>
         /\ The(dragged)[1] = -50000 => camera.min_distance = MIN_DISTANCE_FLOOR
         /\ The(dragged)[2] = -10000 => camera.max_distance = MAX_DISTANCE_FLOOR
    /\ InRender =>
         /\ camera.min_distance >= MIN_DISTANCE_FLOOR
         /\ camera.max_distance >= MAX_DISTANCE_FLOOR
    /\ \A q \in Range(queue) :
         q.target = "camera" =>
             /\ q.data = <<camera.min_distance, camera.max_distance>>
             /\ q.data[1] >= MIN_DISTANCE_FLOOR
             /\ q.data[2] >= MAX_DISTANCE_FLOOR
    /\ executed # None =>
         /\ The(executed).uniform = <<camera.min_distance, camera.max_distance>>
         /\ The(executed).uniform[1] >= MIN_DISTANCE_FLOOR
         /\ The(executed).uniform[2] >= MAX_DISTANCE_FLOOR
    /\ MIN_DISTANCE_FLOOR > 0

C8_Witness ==
    /\ executed # None
    /\ The(executed).uniform = <<MIN_DISTANCE_FLOOR, MAX_DISTANCE_FLOOR>>
    /\ camera_buffer = <<MIN_DISTANCE_FLOOR, MAX_DISTANCE_FLOOR>>

LiveBuffers == {b \in 1..Len(buffers) : ~buffers[b].released}

\* C9: while the storage buffer grows, the old buffer stays bound and
\* unreleased until the new one holds the packed bytes and the group-2
\* binding refers to it; a buffer is released only once neither the
\* binding nor the application refers to it, and the dispatch never runs
\* on a released buffer or on one that lacks the packed bytes.
C9_GrowthKeepsBindingValid ==
    /\ spheres_bind_group \in LiveBuffers
    /\ spheres_buffer \in LiveBuffers
    /\ LiveBuffers = {spheres_bind_group, spheres_buffer}
    /\ pc = "grow_bind" =>
         /\ spheres_bind_group # spheres_buffer
         /\ buffers[spheres_buffer].contents = PackSpheres(spheres)
         /\ ByteLen(buffers[spheres_bind_group].contents) = spheres_buffer_size
    /\ pc \notin {"grow_bind"} => spheres_bind_group = spheres_buffer
    /\ pc = "grow_record" =>
         buffers[spheres_bind_group].contents = PackSpheres(spheres)
    /\ encoder # None => The(encoder).group2 \in LiveBuffers
    /\ executed # None =>
         /\ ~The(executed).storage.released
         /\ The(executed).storage_buffer \in LiveBuffers
         /\ SubSeq(The(executed).storage.contents, 1, Len(PackSpheres(spheres)))
              = PackSpheres(spheres)

\* a dispatch that ran on the second buffer after the first was released
C9_Witness ==
    /\ executed # None
    /\ The(executed).storage_buffer = 2
    /\ buffers[1].released
    /\ Len(spheres) = 2

FrameSteps == <<"camera", "spheres", "dispatch", "submit", "wait", "present">>

\* C10: the handle passed to ui.image is App.texture_id, registered with
\* the renderer for the very texture this frame's dispatch wrote through
\* texture_bind_group, a live texture; it is handed over after the steps of
\* the frame ran in the order resize (if any), camera upload, sphere
\* upload, dispatch, submit, wait.
C10_PresentedHandleIsCurrent ==
    presented # None =>
        /\ The(presented) = texture_id
        /\ executed # None
        /\ waited
        /\ queue = <<>>
        /\ <<The(presented), The(executed).target>> \in renderer.textures
        /\ The(executed).target = texture_bind_group
        /\ textures[The(executed).target].size = Some(texture_size)
        /\ Cardinality({r \in renderer.textures : r[1] = The(presented)}) = 1
        /\ log \in {FrameSteps, <<"resize">> \o FrameSteps}
        /\ Head(log) = "resize" <=> The(entry).texture_id # texture_id

\* a frame that replaced the render target and presented the new handle
C10_Witness ==
    /\ presented # None
    /\ Head(log) = "resize"
    /\ The(presented) = 1
    /\ The(entry).texture_id = 0


RegisteredIds == {r[1] : r \in renderer.textures}

Replacing ==
    pc \in {"create_texture", "register_texture", "bind_texture",
            "set_texture_size"}

\* the new image exists, is registered under App.texture_id and is what
\* the group-0 bind group refers to
NewTargetInPlace ==
    /\ Len(textures) = The(entry).textures + 1
    /\ textures[Len(textures)].size = requested
    /\ texture_id # The(entry).texture_id
    /\ <<texture_id, Len(textures)>> \in renderer.textures
    /\ texture_bind_group = Len(textures)

\* C11 as stated: while the render target is replaced, the old
\* registration texture_id and the old compute binding are released only
\* after the new image is constructed, registered and bound as group 0.
C11_ReleaseAfterRebindAsStated ==
    InRender =>
        /\ The(entry).texture_id \notin RegisteredIds => NewTargetInPlace
        /\ texture_bind_group # The(entry).texture_bind_group => NewTargetInPlace

\* C11 amended: the old registration texture_id is released first, before
\* the new image is created; the old compute binding, and with it the old
\* image, is released only once the new image is constructed and
\* registered, in the step that binds it as group 0; no pass is encoded,
\* run or presented before the replacement is complete.
C11_ReleaseOrder ==
    /\ Cardinality(renderer.textures) <= 1
    /\ textures[texture_bind_group].size # None
    /\ Replacing =>
         /\ The(entry).texture_id \notin RegisteredIds
         /\ encoder = None /\ executed = None /\ presented = None
    /\ pc = "create_texture" =>
         /\ renderer.textures = {}
         /\ Len(textures) = The(entry).textures
         /\ texture_bind_group = The(entry).texture_bind_group
         /\ texture_id = The(entry).texture_id
    /\ pc = "register_texture" =>
         /\ renderer.textures = {}
         /\ textures[The(texture)].size = requested
         /\ texture_bind_group = The(entry).texture_bind_group
    /\ pc = "bind_texture" =>
         /\ renderer.textures = {<<texture_id, The(texture)>>}
         /\ texture_id # The(entry).texture_id
         /\ texture_bind_group = The(entry).texture_bind_group
    /\ (InRender /\ texture_bind_group # The(entry).texture_bind_group) =>
         /\ NewTargetInPlace
         /\ textures[The(entry).texture_bind_group].size = None
    /\ (InRender /\ textures[The(entry).texture_bind_group].size = None) =>
         NewTargetInPlace
    /\ ~Replacing /\ pc # "free_texture" =>
         <<texture_id, texture_bind_group>> \in renderer.textures

\* the new image is registered while the old one is still bound and alive
C11_Witness ==
    /\ pc = "bind_texture"
    /\ The(entry).texture_id \notin RegisteredIds
    /\ texture_bind_group = The(entry).texture_bind_group
    /\ textures[texture_bind_group].size # None
    /\ <<texture_id, The(texture)>> \in renderer.textures


\* C12: in one editing pass, whatever subset of Delete buttons is clicked,
\* every index used to read or remove a sphere is in range when used, the
\* spheres present at the start are visited once each in their order, the
\* pass ends after as many iterations as there were spheres (each iteration
\* takes one off the spheres still to visit, and at zero the loop exits),
\* and the list left is the non-deleted spheres in their original order.
C12_EditingPass ==
    pass # None =>
        LET p == The(pass)
            n == p.start
        IN  /\ p.in_range
            /\ Len(p.visited) <= n
            /\ p.visited = [k \in 1..Len(p.visited) |-> k - 1]
            /\ p.deleted \subseteq Range(p.visited)
            /\ Len(p.origin) = Len(spheres)
            /\ Range(p.origin) = (0..(n - 1)) \ p.deleted
            /\ \A a, b \in 1..Len(p.origin) : a < b => p.origin[a] < p.origin[b]
            /\ pc = "spheres_loop" =>
                 /\ 0 <= i /\ i <= Len(spheres)
                 /\ i = Len(p.visited) - Cardinality(p.deleted)
                 /\ Len(spheres) - i = n - Len(p.visited)
                 /\ (ENABLED SphereIteration) <=> Len(p.visited) < n
                 /\ (ENABLED SpheresLoopExit) <=> Len(p.visited) = n
            /\ pc = "central_panel" =>
                 /\ Len(p.visited) = n
                 /\ Len(spheres) = n - Cardinality(p.deleted)

\* a finished pass over three spheres in which the first two were deleted
C12_Witness ==
    /\ pc = "central_panel"
    /\ pass # None
    /\ The(pass).start = 3
    /\ The(pass).deleted = {0, 1}
    /\ The(pass).origin = <<2>>
    /\ Len(spheres) = 1


\* The loop runs on one thread and keeps running: an enabled iteration or
\* exit is eventually taken.  Under that fairness the pass, once entered,
\* reaches the central panel.
FairPass == Spec /\ WF_vars(SphereIteration) /\ WF_vars(SpheresLoopExit)

PassEnds == (pc = "spheres_loop") ~> (pc = "central_panel")

====
